---- MODULE Spec2Model ----
(***************************************************************************)
(* Model of the BirdEye and DexScreener price clients                      *)
(* (src/birdeye/birdeye.py, src/dexscreener/dexscreener.py).               *)
(*                                                                         *)
(* Every client method is a pure function of its arguments and of what the *)
(* upstream service answers.  Each method is an operator that returns a    *)
(* call record: the exception raised ("none" when the method returns), the *)
(* value returned, the HTTP requests issued and the number of payloads     *)
(* parsed.  The state of the model is the last call made by a caller.      *)
(***************************************************************************)
EXTENDS Integers, Sequences, FiniteSets, TLC

\* pc: "ready" before the caller's request is served, "done" after
\* op: the method the caller requests
\* args: its arguments, [token_addresses, address, token_pairs]
\* upstream: what the services answer, [status, data, token, dex]
\* result: the call record of the served request
\* seen: the BirdEye outcomes the caller has observed, by method and status
VARIABLES pc, op, args, upstream, result, seen

vars == <<pc, op, args, upstream, result, seen>>

\* ------------------------------------------------------------------ bounds

MaxTokens == 2
MaxPairs == 3
MaxPoolPairs == 3

\* ------------------------------------------------------------ Python values

\* dict helpers: a dict is a function whose domain is its key set
EmptyDict == [k \in {} |-> 0]

Put(d, k, v) == [x \in (DOMAIN d) \cup {k} |-> IF x = k THEN v ELSE d[x]]

Del(d, k) == [x \in (DOMAIN d) \ {k} |-> d[x]]

\* A JSON field of a payload.  t: "absent" (the key is missing), "null",
\* "str" (a non-numeric string) or "num".  A number is e * 2^53 + n, so that
\* values beyond the 53-bit significand of a Python float can be written.
Absent == [t |-> "absent", e |-> 0, n |-> 0]

JNull == [t |-> "null", e |-> 0, n |-> 0]

JStr == [t |-> "str", e |-> 0, n |-> 0]

Num(k) == [t |-> "num", e |-> 0, n |-> k]

Big(k) == [t |-> "num", e |-> 1, n |-> k]

\* dict.get(key, default) on a field
GetOr(v, default) == IF v.t = "absent" THEN default ELSE v

\* Decimal(x): exact for a number, TypeError for None, decimal.InvalidOperation
\* (an ArithmeticError, neither ValueError nor TypeError) for a non-numeric string
Decimal(v) ==
  CASE v.t = "num" -> [exc |-> "none", e |-> v.e, n |-> v.n]
    [] v.t = "null" -> [exc |-> "TypeError", e |-> 0, n |-> 0]
    [] OTHER -> [exc |-> "InvalidOperation", e |-> 0, n |-> 0]

\* int(x): as Decimal, but a non-numeric string is a ValueError
int(v) ==
  CASE v.t = "num" -> [exc |-> "none", e |-> v.e, n |-> v.n]
    [] v.t = "null" -> [exc |-> "TypeError", e |-> 0, n |-> 0]
    [] OTHER -> [exc |-> "ValueError", e |-> 0, n |-> 0]

DecZero == [e |-> 0, n |-> 0]

DecVal(d) == [e |-> d.e, n |-> d.n]

\* ---------------------------------------------------------------- addresses

SOL_MINT == "So11111111111111111111111111111111111111112"

TOKEN == "WskzsKqEW3ZsmrhPAevfVZb6PuuLzWov9mJWZsfDePC"

USDC_MINT == "EPjFWdd5AufqSSqeM2qN1xzybapC8G4wEGGkZwyTDt1v"

\* the strings that decode to a 32-byte public key
Base58Pubkeys == {SOL_MINT, TOKEN, USDC_MINT}

\* Pubkey.from_string(s) succeeds; every failure collapses to FALSE
is_solana_address(input_string) == input_string \in Base58Pubkeys

\* ------------------------------------------------------------- call records

PriceInfo(price, liquidity) == [price |-> price, liquidity |-> liquidity]

NoRequests == <<>>

Raised(e, m, c, reqs, np) ==
  [exc |-> e, msg |-> m, codes |-> c, ret |-> "raise", val |-> EmptyDict,
   printed |-> EmptyDict, requests |-> reqs, parsed |-> np, order |-> <<>>]

Returned(kind, v, pr, reqs, np) ==
  [exc |-> "none", msg |-> "", codes |-> {}, ret |-> kind, val |-> v,
   printed |-> pr, requests |-> reqs, parsed |-> np, order |-> <<>>]

\* ------------------------------------------------------------------ BirdEye

\* the body of the loop of fetch_prices over the requested tokens
RECURSIVE PricesLoop(_, _, _, _)
PricesLoop(token_addresses, data, i, prices) ==
  IF i > Len(token_addresses) THEN [exc |-> "none", prices |-> prices]
  ELSE
    LET token == token_addresses[i]
        present == token \in DOMAIN data
        token_data == data[token]
        truthy == present /\ ~(token_data.value.t = "absent"
                               /\ token_data.priceChange24h.t = "absent")
    IN IF truthy THEN
         IF token_data.value.t = "absent"
           THEN [exc |-> "KeyError", prices |-> prices]
         ELSE IF Decimal(token_data.value).exc # "none"
           THEN [exc |-> Decimal(token_data.value).exc, prices |-> prices]
         ELSE IF token_data.priceChange24h.t = "absent"
           THEN [exc |-> "KeyError", prices |-> prices]
         ELSE IF Decimal(token_data.priceChange24h).exc # "none"
           THEN [exc |-> Decimal(token_data.priceChange24h).exc, prices |-> prices]
         ELSE PricesLoop(token_addresses, data, i + 1,
                Put(prices, token,
                    PriceInfo(DecVal(Decimal(token_data.value)),
                              DecVal(Decimal(token_data.priceChange24h)))))
       ELSE PricesLoop(token_addresses, data, i + 1,
              Put(prices, token, PriceInfo(DecZero, DecZero)))

MultiPriceRequest(token_addresses) ==
  [endpoint |-> "multi_price", addrs |-> token_addresses]

\* fetch_prices with the emptiness check made after the request is sent
fetch_prices_CheckAfterRequest(token_addresses, resp) ==
  LET reqs == <<MultiPriceRequest(token_addresses)>> IN
  IF token_addresses = <<>>
    THEN Raised("NoPositionsError", "No tokens provided", {}, reqs, 0)
  ELSE IF resp.status # 200
    THEN Raised("InvalidTokens", "API call was unsuccessful", {}, reqs, 0)
  ELSE
    LET r == PricesLoop(token_addresses, resp.data, 1, EmptyDict) IN
    IF r.exc # "none" THEN Raised(r.exc, "", {}, reqs, 1)
    ELSE Returned("None", EmptyDict, r.prices, reqs, 1)

\* BirdEyeClient.fetch_prices: resp is the upstream's answer, [status, data]
fetch_prices(token_addresses, resp) ==
  IF token_addresses = <<>>
    THEN Raised("NoPositionsError", "No tokens provided", {}, NoRequests, 0)
  ELSE
    LET reqs == <<MultiPriceRequest(token_addresses)>> IN
    IF resp.status # 200
      THEN Raised("InvalidTokens", "API call was unsuccessful", {}, reqs, 0)
    ELSE
      LET r == PricesLoop(token_addresses, resp.data, 1, EmptyDict) IN
      IF r.exc # "none" THEN Raised(r.exc, "", {}, reqs, 1)
      ELSE Returned("None", EmptyDict, r.prices, reqs, 1)

\* The module-level placeholder type, typing.Dict[str, Union[float, str]]: a
\* subscripted typing alias cannot be instantiated, so the call raises TypeError
TokenOverview(price, symbol, decimals, lastTradeUnixTime, liquidity, supply) ==
  [exc |-> "TypeError",
   val |-> [price |-> price, symbol |-> symbol, decimals |-> decimals,
            lastTradeUnixTime |-> lastTradeUnixTime, liquidity |-> liquidity,
            supply |-> supply]]

OverviewRequest(address) == [endpoint |-> "token_overview", addrs |-> <<address>>]

\* the first exception of a sequence of conversions evaluated left to right
RECURSIVE FirstExc(_, _)
FirstExc(convs, i) ==
  IF i > Len(convs) THEN "none"
  ELSE IF convs[i].exc # "none" THEN convs[i].exc
  ELSE FirstExc(convs, i + 1)

\* fetch_token_overview without its branch for status 401
BirdEye_fetch_token_overview_No401(address, resp) ==
  IF ~is_solana_address(address)
    THEN Raised("InvalidSolanaAddress", address, {}, NoRequests, 0)
  ELSE IF resp.status # 200
    THEN Raised("InvalidTokens", "API call was unsuccessful", {},
                <<OverviewRequest(address)>>, 0)
  ELSE Raised("TypeError", "", {}, <<OverviewRequest(address)>>, 1)

\* BirdEyeClient.fetch_token_overview: resp is [status, token]
BirdEye_fetch_token_overview(address, resp) ==
  IF ~is_solana_address(address)
    THEN Raised("InvalidSolanaAddress", address, {}, NoRequests, 0)
  ELSE
    LET reqs == <<OverviewRequest(address)>> IN
    IF resp.status = 401
      THEN Raised("InvalidTokens", "Token is not Authorized", {401}, reqs, 0)
    ELSE IF resp.status # 200
      THEN Raised("InvalidTokens", "API call was unsuccessful", {}, reqs, 0)
    ELSE
      LET token == resp.token
          price == Decimal(GetOr(token.price, Num(0)))
          decimals == int(GetOr(token.decimals, Num(0)))
          lastTrade == int(GetOr(token.lastTradeUnixTime, Num(0)))
          liquidity == Decimal(GetOr(token.liquidity, Num(0)))
          supply == Decimal(GetOr(token.supply, Num(0)))
          failed == FirstExc(<<price, decimals, lastTrade, liquidity, supply>>, 1)
          made == TokenOverview(DecVal(price), token.symbol, DecVal(decimals),
                                DecVal(lastTrade), DecVal(liquidity), DecVal(supply))
      IN IF failed # "none" THEN Raised(failed, "", {}, reqs, 1)
         ELSE IF made.exc # "none" THEN Raised(made.exc, "", {}, reqs, 1)
         ELSE Returned("TokenOverview", made.val, EmptyDict, reqs, 1)

\* -------------------------------------------------------------- DexScreener

\* _validate_token_address: the NoPositionsError of an empty string is caught by
\* the method's own except clause and re-raised as InvalidSolanaAddress
validate_token_address(token_address) ==
  IF token_address = "" THEN "InvalidSolanaAddress"
  ELSE IF ~is_solana_address(token_address) THEN "InvalidSolanaAddress"
  ELSE "none"

RECURSIVE ValidateEach(_, _)
ValidateEach(token_addresses, i) ==
  IF i > Len(token_addresses) THEN [exc |-> "none", msg |-> ""]
  ELSE IF validate_token_address(token_addresses[i]) # "none"
    THEN [exc |-> validate_token_address(token_addresses[i]),
          msg |-> token_addresses[i]]
  ELSE ValidateEach(token_addresses, i + 1)

\* _validate_token_addresses
validate_token_addresses(token_addresses) ==
  IF token_addresses = <<>>
    THEN [exc |-> "NoPositionsError", msg |-> "Token addresses list is empty"]
  ELSE ValidateEach(token_addresses, 1)

\* _validate_response
validate_response(resp) == IF resp.status # 200 THEN "InvalidTokens" ELSE "none"

TokensRequest(address) == [endpoint |-> "dex_tokens", addrs |-> <<address>>]

NoBody == [pairsKind |-> "absent", pairs |-> <<>>]

\* _call_api: [exc, msg, body, requests, parsed]
call_api(token_address, resp) ==
  IF validate_token_address(token_address) # "none"
    THEN [exc |-> "InvalidSolanaAddress", msg |-> token_address, body |-> NoBody,
          requests |-> NoRequests, parsed |-> 0]
  ELSE IF validate_response(resp) # "none"
    THEN [exc |-> "InvalidTokens", msg |-> "", body |-> NoBody,
          requests |-> <<TokensRequest(token_address)>>, parsed |-> 0]
  ELSE [exc |-> "none", msg |-> "",
        body |-> [pairsKind |-> resp.pairsKind, pairs |-> resp.pairs],
        requests |-> <<TokensRequest(token_address)>>, parsed |-> 1]

ErrorMarker(m) == [kind |-> "error", error |-> m, body |-> NoBody]

JsonBody(b) == [kind |-> "json", error |-> "", body |-> b]

\* the loop of _call_api_bulk; order is the insertion order of the dict's keys
RECURSIVE BulkLoop(_, _, _, _)
BulkLoop(token_addresses, up, i, acc) ==
  IF i > Len(token_addresses) THEN acc
  ELSE
    LET address == token_addresses[i]
        order == IF address \in DOMAIN acc.responses THEN acc.order
                 ELSE Append(acc.order, address)
    IN IF validate_token_address(address) # "none" THEN
         \* str(InvalidSolanaAddress(address)) is the address
         BulkLoop(token_addresses, up, i + 1,
           [acc EXCEPT !.responses = Put(@, address, ErrorMarker(address)),
                       !.order = order])
       ELSE IF validate_response(up[address]) # "none" THEN
         \* str(InvalidTokens()) is the empty string
         BulkLoop(token_addresses, up, i + 1,
           [acc EXCEPT !.responses = Put(@, address, ErrorMarker("")),
                       !.order = order,
                       !.requests = Append(@, TokensRequest(address))])
       ELSE
         BulkLoop(token_addresses, up, i + 1,
           [acc EXCEPT !.responses = Put(@, address,
                          JsonBody([pairsKind |-> up[address].pairsKind,
                                    pairs |-> up[address].pairs])),
                       !.order = order,
                       !.requests = Append(@, TokensRequest(address)),
                       !.parsed = @ + 1])

\* _call_api_bulk: up maps each address to the upstream's answer for it
call_api_bulk(token_addresses, up) ==
  IF token_addresses = <<>>
    THEN Raised("NoPositionsError", "Token addresses list is empty", {},
                NoRequests, 0)
  ELSE
    LET b == BulkLoop(token_addresses, up, 1,
               [responses |-> EmptyDict, order |-> <<>>,
                requests |-> NoRequests, parsed |-> 0])
    IN [Returned("dict", b.responses, EmptyDict, b.requests, b.parsed)
          EXCEPT !.order = b.order]

\* clients.common.PriceInfo as the DexScreener client builds it
DexPriceInfo(value, liquidity) == [value |-> value, liquidity |-> liquidity]

\* clients.common.TokenOverview as the DexScreener client builds it; decimals,
\* lastTradeUnixTime and supply are the literal "N/A"
DexTokenOverview(price, symbol, liquidity) ==
  [price |-> price, symbol |-> symbol, liquidity |-> liquidity,
   decimals |-> "N/A", lastTradeUnixTime |-> "N/A", supply |-> "N/A"]

\* the local variable dex_id of a method: unbound until first assigned
Unbound == [bound |-> FALSE, v |-> ""]

Bound(x) == [bound |-> TRUE, v |-> x]

\* One iteration of the per-pair loop.  st is [entry, dex_id, exc]: the venue
\* dict of the address, the method's local dex_id and the exception that left
\* the loop ("none" while it runs).  kind is "price" or "overview".
PairStep(st, pair, kind) ==
  LET price == Decimal(GetOr(pair.priceUsd, Num(0)))
      liquidity == Decimal(GetOr(pair.usd, Num(0)))
      failed == IF price.exc # "none" THEN price.exc ELSE liquidity.exc
      made == IF kind = "price"
                THEN DexPriceInfo(DecVal(price), DecVal(liquidity))
                ELSE DexTokenOverview(DecVal(price), pair.symbol, DecVal(liquidity))
  IN IF failed = "none" THEN
       \* prices[address][dex_id] = {}, then the one symbol of this pair
       [st EXCEPT !.entry = Put(@, pair.dexId, Put(EmptyDict, pair.symbol, made)),
                  !.dex_id = Bound(pair.dexId)]
     ELSE IF failed \in {"ValueError", "TypeError"} THEN
       \* the handler reads dex_id, which this iteration has not assigned
       IF ~st.dex_id.bound THEN [st EXCEPT !.exc = "UnboundLocalError"]
       ELSE IF st.dex_id.v = "" THEN st
       ELSE IF st.dex_id.v \in DOMAIN st.entry
         THEN [st EXCEPT !.entry = Del(@, st.dex_id.v)]
       ELSE [st EXCEPT !.exc = "KeyError"]
     ELSE [st EXCEPT !.exc = failed]

RECURSIVE PairsLoop(_, _, _, _)
PairsLoop(st, pairs, i, kind) ==
  IF i > Len(pairs) \/ st.exc # "none" THEN st
  ELSE PairsLoop(PairStep(st, pairs[i], kind), pairs, i + 1, kind)

\* the loop of fetch_prices_dex over responses.items(); acc is [prices, dex_id, exc]
RECURSIVE DexPricesLoop(_, _, _, _)
DexPricesLoop(order, responses, i, acc) ==
  IF i > Len(order) \/ acc.exc # "none" THEN acc
  ELSE
    LET address == order[i]
        token_data == responses[address]
        hasPairs == token_data.kind = "json" /\ token_data.body.pairsKind # "absent"
    IN IF ~hasPairs THEN DexPricesLoop(order, responses, i + 1, acc)
       ELSE IF token_data.body.pairsKind = "null" THEN
         \* iterating None is a TypeError: the outer handler deletes the address
         DexPricesLoop(order, responses, i + 1,
                       [acc EXCEPT !.prices = Del(@, address)])
       ELSE
         LET st == PairsLoop([entry |-> EmptyDict, dex_id |-> acc.dex_id,
                              exc |-> "none"],
                             token_data.body.pairs, 1, "price")
         IN DexPricesLoop(order, responses, i + 1,
              [prices |-> Put(acc.prices, address, st.entry),
               dex_id |-> st.dex_id, exc |-> st.exc])

\* DexScreenerClient.fetch_prices_dex
fetch_prices_dex(token_addresses, up) ==
  LET v == validate_token_addresses(token_addresses) IN
  IF v.exc # "none" THEN Raised(v.exc, v.msg, {}, NoRequests, 0)
  ELSE
    LET b == call_api_bulk(token_addresses, up)
        r == DexPricesLoop(b.order, b.val, 1,
               [prices |-> EmptyDict, dex_id |-> Unbound, exc |-> "none"])
    IN IF b.exc # "none" THEN b
       ELSE IF r.exc # "none" THEN Raised(r.exc, "", {}, b.requests, b.parsed)
       ELSE Returned("dict", r.prices, EmptyDict, b.requests, b.parsed)

\* DexScreenerClient.fetch_token_overview
Dex_fetch_token_overview(address, resp) ==
  IF validate_token_address(address) # "none"
    THEN Raised("InvalidSolanaAddress", address, {}, NoRequests, 0)
  ELSE
    LET c == call_api(address, resp) IN
    IF c.exc # "none" THEN Raised(c.exc, c.msg, {}, c.requests, c.parsed)
    ELSE IF c.body.pairsKind # "list" \/ c.body.pairs = <<>>
      THEN Returned("str", "Pairs Not Found", EmptyDict, c.requests, c.parsed)
    ELSE
      LET st == PairsLoop([entry |-> EmptyDict, dex_id |-> Unbound, exc |-> "none"],
                          c.body.pairs, 1, "overview")
      IN IF st.exc # "none" THEN Raised(st.exc, "", {}, c.requests, c.parsed)
         ELSE Returned("dict", Put(EmptyDict, address, st.entry), EmptyDict,
                       c.requests, c.parsed)

\* ----------------------------------------------------------- pool selection

\* float(x) of a number e * 2^53 + n: exact below 2^53; from 2^53 to 2^54 the
\* doubles are the even numbers and a tie rounds to the even significand
float(v) ==
  CASE v.t = "null" -> [exc |-> "TypeError", e |-> 0, n |-> 0]
    [] v.t = "str" -> [exc |-> "ValueError", e |-> 0, n |-> 0]
    [] v.t = "num" /\ v.e = 0 -> [exc |-> "none", e |-> 0, n |-> v.n]
    [] OTHER -> [exc |-> "none", e |-> v.e,
                 n |-> CASE v.n % 2 = 0 -> v.n
                         [] v.n % 4 = 1 -> v.n - 1
                         [] OTHER -> v.n + 1]

\* a > b on numbers e * 2^53 + n with n far below 2^53
Greater(a, b) == a.e > b.e \/ (a.e = b.e /\ a.n > b.n)

InitialMaxLiquidity == -1

\* the loop of find_largest_pool_with_sol; acc is [max_entry, max_liquidity_usd,
\* exc], max_entry the position of the entry in token_pairs (0: the empty dict)
RECURSIVE PoolLoop(_, _, _, _)
PoolLoop(token_pairs, address, i, acc) ==
  IF i > Len(token_pairs) \/ acc.exc # "none" THEN acc
  ELSE
    LET entry == token_pairs[i]
        liquidity_usd == float(GetOr(entry.usd, Num(0)))
    IN IF entry.base = address /\ entry.quote = SOL_MINT THEN
         IF liquidity_usd.exc # "none"
           THEN [acc EXCEPT !.exc = liquidity_usd.exc]
         ELSE IF Greater(liquidity_usd, acc.max_liquidity_usd)
           THEN PoolLoop(token_pairs, address, i + 1,
                  [acc EXCEPT !.max_liquidity_usd = DecVal(liquidity_usd),
                              !.max_entry = i])
         ELSE PoolLoop(token_pairs, address, i + 1, acc)
       ELSE PoolLoop(token_pairs, address, i + 1, acc)

\* DexScreenerClient.find_largest_pool_with_sol
find_largest_pool_with_sol(token_pairs, address) ==
  LET r == PoolLoop(token_pairs, address, 1,
             [max_entry |-> 0,
              max_liquidity_usd |-> [e |-> 0, n |-> InitialMaxLiquidity],
              exc |-> "none"])
  IN IF r.exc # "none" THEN Raised(r.exc, "", {}, NoRequests, 0)
     ELSE Returned("entry", [index |-> r.max_entry], EmptyDict, NoRequests, 0)

\* ------------------------------------------------------------------ inputs

Addresses == {SOL_MINT, TOKEN, "", "not-an-address"}

ValidTokens == {SOL_MINT, TOKEN}

Statuses == {200, 401, 404, 500}

SeqsUpTo(S, n) == UNION {[1..k -> S] : k \in 0..n}

TokenLists == SeqsUpTo(Addresses, MaxTokens)

FieldValues == {Absent, JNull, JStr, Num(3)}

ListArgs(l) == [token_addresses |-> l, address |-> "", token_pairs |-> <<>>]

AddressArgs(a) == [token_addresses |-> <<>>, address |-> a, token_pairs |-> <<>>]

PoolArgs(ps, a) == [token_addresses |-> <<>>, address |-> a, token_pairs |-> ps]

TokenFields(p, d, t, l, s) ==
  [price |-> p, symbol |-> "TKN", decimals |-> d, lastTradeUnixTime |-> t,
   liquidity |-> l, supply |-> s]

FullToken == TokenFields(Num(3), Num(3), Num(3), Num(3), Num(3))

MultiUp(s, d) == [status |-> s, data |-> d, token |-> FullToken, dex |-> EmptyDict]

OverviewUp(s, t) == [status |-> s, data |-> EmptyDict, token |-> t, dex |-> EmptyDict]

DexUp(f) == [status |-> 200, data |-> EmptyDict, token |-> FullToken, dex |-> f]

Quoted == [value |-> Num(3), priceChange24h |-> Num(3)]

\* multi_price payloads that quote a subset of the valid tokens in full
QuotedData == {[a \in S |-> Quoted] : S \in SUBSET ValidTokens}

Pair(d, sym, b, q, p, u) ==
  [dexId |-> d, symbol |-> sym, base |-> b, quote |-> q, priceUsd |-> p, usd |-> u]

GoodPair(a) == Pair("raydium", "TKN", a, SOL_MINT, Num(3), Num(3))

DexResponse(s, k, ps) == [status |-> s, pairsKind |-> k, pairs |-> ps]

\* the answers of the tokens endpoint for one address, by shape
ResponseShapes(a) ==
  {DexResponse(500, "absent", <<>>), DexResponse(200, "absent", <<>>),
   DexResponse(200, "null", <<>>), DexResponse(200, "list", <<>>),
   DexResponse(200, "list", <<GoodPair(a)>>)}

ShapedDex == {f \in [ValidTokens -> UNION {ResponseShapes(a) : a \in ValidTokens}] :
                \A a \in ValidTokens : f[a] \in ResponseShapes(a)}

DexIds == {"raydium", "orca"}

Symbols == {"TKN", "WTKN"}

PairValues ==
  {Pair(d, sym, TOKEN, SOL_MINT, p, u) :
     d \in DexIds, sym \in Symbols, p \in FieldValues, u \in {JNull, Num(3)}}

PairLists == SeqsUpTo(PairValues, MaxPairs)

\* SOL_MINT answers one good pair, TOKEN the pairs under study
DetailedDex ==
  {[a \in ValidTokens |->
      IF a = TOKEN THEN DexResponse(200, "list", ps)
      ELSE DexResponse(200, "list", <<GoodPair(a)>>)] : ps \in PairLists}

DetailedData ==
  {[a \in ValidTokens |->
      IF a = TOKEN THEN [value |-> v, priceChange24h |-> c] ELSE Quoted] :
     v \in FieldValues, c \in FieldValues}

DetailedTokens ==
  {TokenFields(p, d, t, l, s) :
     p \in FieldValues, d \in FieldValues, t \in FieldValues,
     l \in FieldValues, s \in FieldValues}

PoolLiquidities ==
  {Absent, Num(-2), Num(-1), Num(0), Num(3), Big(0), Big(1)}

PoolPairValues ==
  {Pair("raydium", "TKN", b, q, Num(3), u) :
     b \in {TOKEN, USDC_MINT}, q \in {SOL_MINT, USDC_MINT}, u \in PoolLiquidities}

PoolLists == SeqsUpTo(PoolPairValues, MaxPoolPairs)

NotCalled == Returned("pending", EmptyDict, EmptyDict, NoRequests, 0)

\* ----------------------------------------------------------------- actions

Observation == [op |-> op, status |-> upstream.status, exc |-> result'.exc,
                msg |-> result'.msg, codes |-> result'.codes]

BirdEyeFetchPrices ==
  /\ pc = "ready" /\ op = "BirdEye.fetch_prices"
  /\ result' = fetch_prices(args.token_addresses, upstream)
  /\ seen' = seen \cup {Observation}
  /\ pc' = "done"
  /\ UNCHANGED <<op, args, upstream>>

BirdEyeFetchTokenOverview ==
  /\ pc = "ready" /\ op = "BirdEye.fetch_token_overview"
  /\ result' = BirdEye_fetch_token_overview(args.address, upstream)
  /\ seen' = seen \cup {Observation}
  /\ pc' = "done"
  /\ UNCHANGED <<op, args, upstream>>

DexCallApiBulk ==
  /\ pc = "ready" /\ op = "Dex._call_api_bulk"
  /\ result' = call_api_bulk(args.token_addresses, upstream.dex)
  /\ pc' = "done"
  /\ UNCHANGED <<op, args, upstream, seen>>

DexFetchPricesDex ==
  /\ pc = "ready" /\ op = "Dex.fetch_prices_dex"
  /\ result' = fetch_prices_dex(args.token_addresses, upstream.dex)
  /\ pc' = "done"
  /\ UNCHANGED <<op, args, upstream, seen>>

DexFetchTokenOverview ==
  /\ pc = "ready" /\ op = "Dex.fetch_token_overview"
  /\ result' = Dex_fetch_token_overview(args.address,
                  IF args.address \in DOMAIN upstream.dex
                    THEN upstream.dex[args.address]
                    ELSE DexResponse(404, "absent", <<>>))
  /\ pc' = "done"
  /\ UNCHANGED <<op, args, upstream, seen>>

DexFindLargestPool ==
  /\ pc = "ready" /\ op = "Dex.find_largest_pool_with_sol"
  /\ result' = find_largest_pool_with_sol(args.token_pairs, args.address)
  /\ pc' = "done"
  /\ UNCHANGED <<op, args, upstream, seen>>

\* the caller's next request, as the loop of the demonstration entry point
\* makes one call after another, under whatever status the service answers
NextRequest ==
  /\ pc = "done"
  /\ \E o \in {"BirdEye.fetch_prices", "BirdEye.fetch_token_overview"},
        s \in Statuses :
       /\ op' = o
       /\ upstream' = [upstream EXCEPT !.status = s]
  /\ result' = NotCalled
  /\ pc' = "ready"
  /\ UNCHANGED <<args, seen>>

\* ---------------------------------------------------------- specifications

Start == pc = "ready" /\ result = NotCalled /\ seen = {}

\* the clients called with lists of addresses, valid or not, against answers
\* of every shape
Init ==
  /\ Start
  /\ \/ /\ op = "BirdEye.fetch_prices"
        /\ args \in {ListArgs(l) : l \in TokenLists}
        /\ upstream \in {MultiUp(s, d) : s \in Statuses, d \in QuotedData}
     \/ /\ op = "BirdEye.fetch_token_overview"
        /\ args \in {AddressArgs(a) : a \in Addresses}
        /\ upstream \in {OverviewUp(s, FullToken) : s \in Statuses}
     \/ /\ op \in {"Dex._call_api_bulk", "Dex.fetch_prices_dex"}
        /\ args \in {ListArgs(l) : l \in TokenLists}
        /\ upstream \in {DexUp(f) : f \in ShapedDex}
     \/ /\ op = "Dex.fetch_token_overview"
        /\ args \in {AddressArgs(a) : a \in Addresses}
        /\ upstream \in {DexUp(f) : f \in ShapedDex}

Next ==
  \/ BirdEyeFetchPrices
  \/ BirdEyeFetchTokenOverview
  \/ DexCallApiBulk
  \/ DexFetchPricesDex
  \/ DexFetchTokenOverview

Spec == Init /\ [][Next]_vars

\* one token whose payload fields take every value
InitPairs ==
  /\ Start
  /\ \/ /\ op = "BirdEye.fetch_prices"
        /\ args \in {ListArgs(<<TOKEN>>), ListArgs(<<SOL_MINT, TOKEN>>)}
        /\ upstream \in {MultiUp(200, d) : d \in DetailedData}
     \/ /\ op = "BirdEye.fetch_token_overview"
        /\ args = AddressArgs(TOKEN)
        /\ upstream \in {OverviewUp(200, t) : t \in DetailedTokens}
     \/ /\ op = "Dex.fetch_prices_dex"
        /\ args \in {ListArgs(<<TOKEN>>), ListArgs(<<SOL_MINT, TOKEN>>)}
        /\ upstream \in {DexUp(f) : f \in DetailedDex}
     \/ /\ op = "Dex.fetch_token_overview"
        /\ args = AddressArgs(TOKEN)
        /\ upstream \in {DexUp(f) : f \in DetailedDex}

NextPairs ==
  \/ BirdEyeFetchPrices
  \/ BirdEyeFetchTokenOverview
  \/ DexFetchPricesDex
  \/ DexFetchTokenOverview

SpecPairs == InitPairs /\ [][NextPairs]_vars

InitPool ==
  /\ Start
  /\ op = "Dex.find_largest_pool_with_sol"
  /\ args \in {PoolArgs(ps, TOKEN) : ps \in PoolLists}
  /\ upstream = DexUp(EmptyDict)

NextPool == DexFindLargestPool

SpecPool == InitPool /\ [][NextPool]_vars

\* one caller making BirdEye calls one after another under changing statuses
InitStatus ==
  /\ Start
  /\ op \in {"BirdEye.fetch_prices", "BirdEye.fetch_token_overview"}
  /\ args = [token_addresses |-> <<TOKEN>>, address |-> TOKEN, token_pairs |-> <<>>]
  /\ upstream \in {[status |-> s, data |-> [a \in {TOKEN} |-> Quoted],
                    token |-> FullToken, dex |-> EmptyDict] : s \in Statuses}

NextStatus ==
  \/ BirdEyeFetchPrices
  \/ BirdEyeFetchTokenOverview
  \/ NextRequest

SpecStatus == InitStatus /\ [][NextStatus]_vars

\* ------------------------------------------------------------------ claims

Range(f) == {f[i] : i \in DOMAIN f}

Distinct(l) == \A i, j \in DOMAIN l : i # j => l[i] # l[j]

\* the address is invalid, or the tokens endpoint answers it with a non-200
FailsInBulk(a) == ~is_solana_address(a) \/ upstream.dex[a].status # 200

\* the address is valid and the tokens endpoint answers 200 with a pair for it
SucceedsInBulk(a) ==
  /\ is_solana_address(a)
  /\ upstream.dex[a] = DexResponse(200, "list", <<GoodPair(a)>>)

IsErrorMarker(x) == "error" \in DOMAIN x

\* C1: in fetch_prices_dex, a list of N distinct addresses of which one is
\* invalid or answered with a non-200 and the other N-1 are valid and answered
\* with a 200 does not raise: the result has N entries, an error marker for
\* the failing address and the successful result for each of the others.
C1_BulkIsolation ==
  (/\ pc = "done" /\ op = "Dex.fetch_prices_dex"
   /\ args.token_addresses # <<>>
   /\ Distinct(args.token_addresses)
   /\ \E i \in DOMAIN args.token_addresses :
        /\ FailsInBulk(args.token_addresses[i])
        /\ \A j \in DOMAIN args.token_addresses :
             j # i => SucceedsInBulk(args.token_addresses[j]))
  => /\ result.exc = "none"
     /\ DOMAIN result.val = Range(args.token_addresses)
     /\ \A a \in Range(args.token_addresses) :
          IF FailsInBulk(a) THEN IsErrorMarker(result.val[a])
          ELSE result.val[a] =
                 Put(EmptyDict, "raydium",
                     Put(EmptyDict, "TKN", DexPriceInfo(DecVal(Num(3)), DecVal(Num(3)))))

\* C2: no public fetch operation issues an HTTP request whose URL carries an
\* address for which is_solana_address is false.
C2_ValidationPrecedesNetwork ==
  pc = "done" =>
    \A i \in DOMAIN result.requests :
      \A j \in DOMAIN result.requests[i].addrs :
        is_solana_address(result.requests[i].addrs[j])

AllValid(l) == \A i \in DOMAIN l : is_solana_address(l[i])

\* the upstream's 200 payload has nothing for the address
Omitted(a) ==
  IF op = "BirdEye.fetch_prices" THEN a \notin DOMAIN upstream.data
  ELSE upstream.dex[a].pairsKind # "list" \/ upstream.dex[a].pairs = <<>>

IsZeroEntry(x) ==
  /\ "liquidity" \in DOMAIN x /\ x["liquidity"] = DecZero
  /\ \/ "price" \in DOMAIN x /\ x["price"] = DecZero
     \/ "value" \in DOMAIN x /\ x["value"] = DecZero

\* C3: for a non-empty list of valid addresses answered with 200, fetch_prices
\* and fetch_prices_dex return a mapping with an entry for every requested
\* address; an address the upstream omitted has price 0 and liquidity 0.
C3_EntryForEveryAddress ==
  (/\ pc = "done" /\ op \in {"BirdEye.fetch_prices", "Dex.fetch_prices_dex"}
   /\ args.token_addresses # <<>>
   /\ AllValid(args.token_addresses)
   /\ IF op = "BirdEye.fetch_prices" THEN upstream.status = 200
      ELSE \A a \in Range(args.token_addresses) : upstream.dex[a].status = 200)
  => /\ result.exc = "none"
     /\ result.ret = "dict"
     /\ \A a \in Range(args.token_addresses) :
          /\ a \in DOMAIN result.val
          /\ Omitted(a) => IsZeroEntry(result.val[a])

MultiTokenOps == {"BirdEye.fetch_prices", "Dex.fetch_prices_dex", "Dex._call_api_bulk"}

\* C4: a multi-token operation called with an empty address list fails with
\* NoPositionsError, having issued no HTTP request and parsed no payload.
C4_EmptyInputFails ==
  (pc = "done" /\ op \in MultiTokenOps /\ args.token_addresses = <<>>)
  => /\ result.exc = "NoPositionsError"
     /\ result.requests = <<>>
     /\ result.parsed = 0

C4_Witness ==
  /\ pc = "done" /\ op = "Dex.fetch_prices_dex" /\ args.token_addresses = <<>>
  /\ result.exc = "NoPositionsError"

Matching ==
  {i \in DOMAIN args.token_pairs :
     /\ args.token_pairs[i].base = args.address
     /\ args.token_pairs[i].quote = SOL_MINT}

\* liquidity.usd of the pair at position i, exactly; 0 when absent
LiquidityAt(i) == DecVal(GetOr(args.token_pairs[i].usd, Num(0)))

\* C6: find_largest_pool_with_sol returns the matching pair of maximal
\* liquidity.usd, the first in input order among those that tie (which makes the
\* result a function of the matching pairs alone).  Stated for inputs whose
\* matching pairs all carry a liquidity.usd that is absent or not negative.
C6_LargestMatchingPool ==
  (/\ pc = "done" /\ op = "Dex.find_largest_pool_with_sol"
   /\ Matching # {}
   /\ \A i \in Matching : Greater(LiquidityAt(i), DecVal(Num(-1))))
  => /\ result.exc = "none"
     /\ result.val.index \in Matching
     /\ \A j \in Matching : ~Greater(LiquidityAt(j), LiquidityAt(result.val.index))
     /\ \A j \in Matching :
          j < result.val.index => Greater(LiquidityAt(result.val.index), LiquidityAt(j))

\* C7: find_largest_pool_with_sol returns the empty record if and only if no
\* pair matches the filter; when a pair matches, the result is a matching pair,
\* whatever liquidity.usd the pairs carry.
C7_NotFoundIffNoMatch ==
  (pc = "done" /\ op = "Dex.find_largest_pool_with_sol")
  => /\ result.exc = "none"
     /\ result.val.index = 0 <=> Matching = {}
     /\ Matching # {} => result.val.index \in Matching

DexPairOps == {"Dex.fetch_prices_dex", "Dex.fetch_token_overview"}

\* the pairs the tokens endpoint answers for TOKEN
TokenPairs == upstream.dex[TOKEN].pairs

Parses(pair) ==
  /\ Decimal(GetOr(pair.priceUsd, Num(0))).exc = "none"
  /\ Decimal(GetOr(pair.usd, Num(0))).exc = "none"

\* C8: in the per-pair loops, a pair whose priceUsd or liquidity.usd fails to
\* parse costs only its own venue entry: the loop does not raise, and the venue
\* of every other pair, before or after it, is present in the result.  Stated
\* for the venues no failing pair shares.
C8_OnlyFailingPairDropped ==
  (/\ pc = "done" /\ op \in DexPairOps
   /\ \E i \in DOMAIN TokenPairs : ~Parses(TokenPairs[i]))
  => /\ result.exc = "none"
     /\ TOKEN \in DOMAIN result.val
     /\ \A j \in DOMAIN TokenPairs :
          (/\ Parses(TokenPairs[j])
           /\ \A i \in DOMAIN TokenPairs :
                ~Parses(TokenPairs[i]) => TokenPairs[i].dexId # TokenPairs[j].dexId)
          => TokenPairs[j].dexId \in DOMAIN result.val[TOKEN]

\* C9: every pair that parses appears at result[address][dexId][symbol] with
\* its own price and liquidity; no quote is overwritten by another pair's.
\* Stated for payloads in which every pair parses and no two pairs share both
\* dexId and symbol.
C9_AllVenuesProduced ==
  (/\ pc = "done" /\ op \in DexPairOps
   /\ TokenPairs # <<>>
   /\ \A i \in DOMAIN TokenPairs : Parses(TokenPairs[i])
   /\ \A i, j \in DOMAIN TokenPairs :
        i # j => <<TokenPairs[i].dexId, TokenPairs[i].symbol>>
                 # <<TokenPairs[j].dexId, TokenPairs[j].symbol>>)
  => /\ result.exc = "none"
     /\ TOKEN \in DOMAIN result.val
     /\ \A j \in DOMAIN TokenPairs :
          LET pair == TokenPairs[j] IN
          /\ pair.dexId \in DOMAIN result.val[TOKEN]
          /\ pair.symbol \in DOMAIN result.val[TOKEN][pair.dexId]
          /\ result.val[TOKEN][pair.dexId][pair.symbol]["liquidity"]
               = DecVal(Decimal(GetOr(pair.usd, Num(0))))
          /\ result.val[TOKEN][pair.dexId][pair.symbol]
               [IF op = "Dex.fetch_prices_dex" THEN "value" ELSE "price"]
               = DecVal(Decimal(GetOr(pair.priceUsd, Num(0))))

\* the field's number, or 0 when the field is absent or not a number
Defaulted(v) == IF v.t = "num" THEN DecVal(v) ELSE DecZero

NotANumber(v) == v.t # "num"

\* C10: when a token's entry is present in a 200 payload and a numeric field of
\* it is absent or not a number, normalization does not raise and the field is
\* 0: value and priceChange24h in fetch_prices, price, decimals,
\* lastTradeUnixTime, liquidity and supply in the BirdEye overview, priceUsd and
\* liquidity.usd in the DexScreener operations (stated for a single pair).
C10_DefaultsForBadFields ==
  (pc = "done" /\ upstream.status = 200) =>
    CASE op = "BirdEye.fetch_prices" ->
           LET d == upstream.data[TOKEN] IN
           (NotANumber(d.value) \/ NotANumber(d.priceChange24h))
           => /\ result.exc = "none"
              /\ result.printed[TOKEN]
                   = PriceInfo(Defaulted(d.value), Defaulted(d.priceChange24h))
      [] op = "BirdEye.fetch_token_overview" ->
           LET t == upstream.token IN
           (\E v \in {t.price, t.decimals, t.lastTradeUnixTime, t.liquidity,
                      t.supply} : NotANumber(v))
           => /\ result.exc = "none"
              /\ result.val = [price |-> Defaulted(t.price), symbol |-> t.symbol,
                               decimals |-> Defaulted(t.decimals),
                               lastTradeUnixTime |-> Defaulted(t.lastTradeUnixTime),
                               liquidity |-> Defaulted(t.liquidity),
                               supply |-> Defaulted(t.supply)]
      [] op \in DexPairOps /\ Len(TokenPairs) = 1 ->
           LET pair == TokenPairs[1] IN
           (NotANumber(pair.priceUsd) \/ NotANumber(pair.usd))
           => /\ result.exc = "none"
              /\ TOKEN \in DOMAIN result.val
              /\ pair.dexId \in DOMAIN result.val[TOKEN]
              /\ pair.symbol \in DOMAIN result.val[TOKEN][pair.dexId]
              /\ result.val[TOKEN][pair.dexId][pair.symbol]["liquidity"]
                   = Defaulted(pair.usd)
              /\ result.val[TOKEN][pair.dexId][pair.symbol]
                   [IF op = "Dex.fetch_prices_dex" THEN "value" ELSE "price"]
                   = Defaulted(pair.priceUsd)
      [] OTHER -> TRUE

====
